---- MODULE Spec2Model ----
(***************************************************************************)
(* slidecat: split / merge / extract / verify of presentation decks.       *)
(*                                                                         *)
(* A deck on disk is modelled by what the operations read from it: whether *)
(* the path exists, whether the package opens, its slide list (sldIdLst, a *)
(* sequence of relationship ids), the slide relationships of the           *)
(* presentation part, and, for merge, the shapes of every slide and the    *)
(* cloneable placeholders of every layout.  One run of the model is one    *)
(* call of one operation; pc is the position inside that call.             *)
(***************************************************************************)
EXTENDS Integers, Sequences, FiniteSets, TLC

\* ---------------------------------------------------------------- bounds
MaxSlides == 4        \* slides of a deck given to split / extract / verify
MaxRangeLen == 3      \* characters of the --range string
MaxFiles == 3         \* decks given to merge
MaxMergeSlides == 2   \* slides of a deck given to merge
MaxLayouts == 7       \* slide layouts of the merge base deck
MaxPlaceholders == 1  \* cloneable placeholders of one layout
MaxShapes == 2        \* shapes of a slide given to merge

\* ------------------------------------------------------- program constants
BlankLayoutIdx == 6   \* merged_prs.slide_layouts[6]
PadWidth == 3         \* the 03d of the file-name format

VARIABLES
    op,               \* which operation this run calls
    pc,               \* position inside the operation
    input_file,       \* the deck at the input path (split, extract, verify)
    input_files,      \* the decks at the input paths (merge)
    chunk_size,       \* split argument; <<>> is None, <<c>> is c
    start,            \* extract argument
    end,              \* extract argument; <<>> is None, <<e>> is e
    slide_range,      \* CLI --range string, a sequence of characters
    dir_created,      \* the output directory has been created by this run
    written,          \* files saved by this run, in order: [name, deck]
    total_slides,     \* len(prs.slides)
    start_idx,        \* split loop variable
    end_idx,          \* split loop variable
    new_prs,          \* the freshly loaded copy being cut down
    slides_to_remove, \* indices the removal loop has still to visit
    created_files,    \* split's return value
    merged_prs,       \* merge's base deck
    file_i,           \* merge: index into input_files[1:]
    slide_i,          \* merge: index into the current source's slides
    result,           \* verify's report
    raised,           \* exception leaving the core function, "none" if none
    message,          \* what the CLI printed last
    exit_code         \* CLI exit code, -1 while running

vars == <<op, pc, input_file, input_files, chunk_size, start, end,
          slide_range, dir_created, written, total_slides, start_idx,
          end_idx, new_prs, slides_to_remove, created_files, merged_prs,
          file_i, slide_i, result, raised, message, exit_code>>

\* ------------------------------------------------------------- helpers
Range(s) == {s[i] : i \in 1..Len(s)}

Min(a, b) == IF a < b THEN a ELSE b

SeqsUpTo(S, n) == UNION {[1..k -> S] : k \in 0..n}

InjectiveSeqs(S, n) ==
    {s \in SeqsUpTo(S, n) : \A i, j \in 1..Len(s) : i # j => s[i] # s[j]}

\* reversed(xs)
Reversed(xs) == [i \in 1..Len(xs) |-> xs[Len(xs) + 1 - i]]

\* del xs[idx], idx 0-based
DelAt(xs, idx) ==
    [i \in 1..(Len(xs) - 1) |-> IF i <= idx THEN xs[i] ELSE xs[i + 1]]

\* range(lo, hi) as an ascending sequence
RangeSeq(lo, hi) == [i \in 1..(IF hi > lo THEN hi - lo ELSE 0) |-> lo + i - 1]

\* ------------------------------------------------------- the decks on disk
NoDeck == [exists |-> FALSE, opens |-> FALSE, sldIdLst |-> <<>>,
           rels |-> {}, bad |-> {}, layouts |-> 0, masters |-> 0]

CorruptDeck == [exists |-> TRUE, opens |-> FALSE, sldIdLst |-> <<>>,
                rels |-> {}, bad |-> {}, layouts |-> 0, masters |-> 0]

\* a deck whose slide list and slide relationships agree
WellFormedDecks ==
    {[exists |-> TRUE, opens |-> TRUE, sldIdLst |-> s, rels |-> Range(s),
      bad |-> {}, layouts |-> 1, masters |-> 1] :
        s \in InjectiveSeqs(1..MaxSlides, MaxSlides)}

\* Presentation(path): the slide list and the slide relationships
LoadPrs(deck) == [sldIdLst |-> deck.sldIdLst, rels |-> deck.rels]

EmptyPrs == [sldIdLst |-> <<>>, rels |-> {}]

\* --------------------------------------------------- the removal loop
\* a bug: the upper end of the range is kept too
SlidesToKeep_Inclusive(lo, hi) == lo..hi

\* set(range(lo, hi))
SlidesToKeep(lo, hi) == lo..(hi - 1)

\* [i for i in range(n) if i not in keep]
RECURSIVE Filter(_, _)
Filter(xs, keep) ==
    IF xs = <<>> THEN <<>>
    ELSE IF Head(xs) \in keep THEN Filter(Tail(xs), keep)
         ELSE <<Head(xs)>> \o Filter(Tail(xs), keep)

SlidesToRemove(n, keep) == Filter(RangeSeq(0, n), keep)

\* a bug: the loop visits slides_to_remove in ascending order
RemovalOrder_Ascending(xs) == xs

\* the order in which the loop visits slides_to_remove
RemovalOrder(xs) == Reversed(xs)

\* rId = sldIdLst[idx].rId; part.drop_rel(rId); del sldIdLst[idx]
DropSlide(prs, idx) ==
    [sldIdLst |-> DelAt(prs.sldIdLst, idx),
     rels |-> prs.rels \ {prs.sldIdLst[idx + 1]}]

\* ------------------------------------------------------------ file names
RECURSIVE Digits(_)
Digits(n) == IF n < 10 THEN <<n>> ELSE Digits(n \div 10) \o <<n % 10>>

\* f"{n:03d}" for n >= 0
Fmt03d(n) ==
    LET d == Digits(n)
    IN  IF Len(d) >= PadWidth THEN d
        ELSE [i \in 1..(PadWidth - Len(d)) |-> 0] \o d

\* the chunk's file name, stem and extension left out
ChunkName(csize, sidx, eidx) ==
    IF csize = 1
    THEN [kind |-> "slide", first |-> Fmt03d(sidx + 1), last |-> <<>>]
    ELSE [kind |-> "slides", first |-> Fmt03d(sidx + 1), last |-> Fmt03d(eidx)]

OutputName == [kind |-> "output", first |-> <<>>, last |-> <<>>]

\* ----------------------------------------------------------------- Init
NoResult == [valid |-> FALSE, error |-> "None", slides |-> 0,
             slide_details |-> <<>>, layouts |-> 0, masters |-> 0]

Locals ==
    /\ dir_created = FALSE
    /\ written = <<>>
    /\ total_slides = 0
    /\ start_idx = 0
    /\ end_idx = 0
    /\ new_prs = EmptyPrs
    /\ slides_to_remove = <<>>
    /\ created_files = <<>>
    /\ merged_prs = [slides |-> <<>>, layouts |-> <<>>]
    /\ file_i = 0
    /\ slide_i = 0
    /\ result = NoResult
    /\ raised = "none"
    /\ message = "none"
    /\ exit_code = -1

ChunkSizes == {<<>>} \cup {<<c>> : c \in -1..(MaxSlides + 1)}

InitSplit ==
    /\ op = "split"
    /\ pc = "split_entry"
    /\ input_file \in {NoDeck, CorruptDeck} \cup WellFormedDecks
    /\ chunk_size \in ChunkSizes
    /\ input_files = <<>>
    /\ start = 0
    /\ end = <<>>
    /\ slide_range = <<>>
    /\ Locals

\* ---------------------------------------------------- split_presentation
SplitCheckInput ==
    /\ pc = "split_entry"
    /\ IF ~input_file.exists
       THEN /\ raised' = "FileNotFoundError"
            /\ pc' = "raised"
       ELSE /\ raised' = raised
            /\ pc' = "split_mkdir"
    /\ UNCHANGED <<op, input_file, input_files, chunk_size, start, end,
                   slide_range, dir_created, written, total_slides,
                   start_idx, end_idx, new_prs, slides_to_remove,
                   created_files, merged_prs, file_i, slide_i, result,
                   message, exit_code>>

\* output_dir.mkdir(parents=True, exist_ok=True)
SplitMkdir ==
    /\ pc = "split_mkdir"
    /\ dir_created' = TRUE
    /\ pc' = "split_validate"
    /\ UNCHANGED <<op, input_file, input_files, chunk_size, start, end,
                   slide_range, written, total_slides, start_idx, end_idx,
                   new_prs, slides_to_remove, created_files, merged_prs,
                   file_i, slide_i, result, raised, message, exit_code>>

\* if chunk_size is None: chunk_size = 1
ChunkSize(c) == IF c = <<>> THEN 1 ELSE c[1]

\* load the deck, count its slides, the zero-slide and chunk-size checks
SplitValidate ==
    /\ pc = "split_validate"
    /\ IF ~input_file.opens
       THEN /\ raised' = "PackageNotFoundError"
            /\ pc' = "raised"
            /\ UNCHANGED <<total_slides, start_idx>>
       ELSE LET n == Len(LoadPrs(input_file).sldIdLst)
            IN  /\ total_slides' = n
                /\ IF n = 0 \/ (chunk_size # <<>> /\ chunk_size[1] < 1)
                   THEN /\ raised' = "ValueError"
                        /\ pc' = "raised"
                        /\ start_idx' = start_idx
                   ELSE /\ raised' = raised
                        /\ start_idx' = 0
                        /\ pc' = "split_loop"
    /\ UNCHANGED <<op, input_file, input_files, chunk_size, start, end,
                   slide_range,
                   dir_created, written, end_idx, new_prs, slides_to_remove,
                   created_files, merged_prs, file_i, slide_i, result,
                   message, exit_code>>

\* one turn of `for start_idx in range(0, total_slides, chunk_size)`:
\* end_idx, the fresh copy, slides_to_keep and slides_to_remove
SplitChunkBegin ==
    /\ pc = "split_loop"
    /\ start_idx < total_slides
    /\ LET e == Min(start_idx + ChunkSize(chunk_size), total_slides)
           p == LoadPrs(input_file)
       IN  /\ end_idx' = e
           /\ new_prs' = p
           /\ slides_to_remove' =
                  RemovalOrder(SlidesToRemove(Len(p.sldIdLst),
                                              SlidesToKeep(start_idx, e)))
    /\ pc' = "split_remove"
    /\ UNCHANGED <<op, input_file, input_files, chunk_size, start, end,
                   slide_range, dir_created, written, total_slides,
                   start_idx, created_files, merged_prs, file_i, slide_i,
                   result, raised, message, exit_code>>

\* one turn of `for slide_idx in reversed(slides_to_remove)`
SplitRemoveSlide ==
    /\ pc = "split_remove"
    /\ slides_to_remove # <<>>
    /\ new_prs' = DropSlide(new_prs, Head(slides_to_remove))
    /\ slides_to_remove' = Tail(slides_to_remove)
    /\ UNCHANGED <<op, pc, input_file, input_files, chunk_size, start, end,
                   slide_range, dir_created, written, total_slides,
                   start_idx, end_idx, created_files, merged_prs, file_i,
                   slide_i, result, raised, message, exit_code>>

\* name the chunk, save it, append it, step the loop
SplitSaveChunk ==
    /\ pc = "split_remove"
    /\ slides_to_remove = <<>>
    /\ LET f == [name |-> ChunkName(ChunkSize(chunk_size), start_idx, end_idx),
                 deck |-> new_prs]
       IN  /\ written' = Append(written, f)
           /\ created_files' = Append(created_files, f.name)
    /\ start_idx' = start_idx + ChunkSize(chunk_size)
    /\ pc' = "split_loop"
    /\ UNCHANGED <<op, input_file, input_files, chunk_size, start, end,
                   slide_range, dir_created, total_slides, end_idx, new_prs,
                   slides_to_remove, merged_prs, file_i, slide_i, result,
                   raised, message, exit_code>>

SplitReturn ==
    /\ pc = "split_loop"
    /\ start_idx >= total_slides
    /\ pc' = "done"
    /\ UNCHANGED <<op, input_file, input_files, chunk_size, start, end,
                   slide_range, dir_created, written, total_slides,
                   start_idx, end_idx, new_prs, slides_to_remove,
                   created_files, merged_prs, file_i, slide_i, result,
                   raised, message, exit_code>>

\* ------------------------------------------------------- extract_slides
OptInts == {<<>>} \cup {<<e>> : e \in -1..(MaxSlides + 1)}

InitExtract ==
    /\ op = "extract"
    /\ pc = "extract_entry"
    /\ input_file \in {NoDeck, CorruptDeck} \cup WellFormedDecks
    /\ start \in -1..(MaxSlides + 1)
    /\ end \in OptInts
    /\ chunk_size = <<>>
    /\ input_files = <<>>
    /\ slide_range = <<>>
    /\ Locals

ExtractCheckInput ==
    /\ pc = "extract_entry"
    /\ IF ~input_file.exists
       THEN /\ raised' = "FileNotFoundError"
            /\ pc' = "raised"
       ELSE /\ raised' = raised
            /\ pc' = "extract_validate"
    /\ UNCHANGED <<op, input_file, input_files, chunk_size, start, end,
                   slide_range, dir_created, written, total_slides,
                   start_idx, end_idx, new_prs, slides_to_remove,
                   created_files, merged_prs, file_i, slide_i, result,
                   message, exit_code>>

\* start < 1 or start > total_slides
StartOutOfRange(s, n) == s < 1 \/ s > n

\* end < start or end > total_slides
EndOutOfRange(s, e, n) == e < s \/ e > n

\* if end is None: end = total_slides
EndOrTotal(e, n) == IF e = <<>> THEN n ELSE e[1]

\* load the deck, count its slides, the zero-slide and the range checks
ExtractValidate ==
    /\ pc = "extract_validate"
    /\ IF ~input_file.opens
       THEN /\ raised' = "PackageNotFoundError"
            /\ pc' = "raised"
            /\ total_slides' = total_slides
       ELSE LET n == Len(LoadPrs(input_file).sldIdLst)
            IN  /\ total_slides' = n
                /\ IF \/ n = 0
                      \/ StartOutOfRange(start, n)
                      \/ EndOutOfRange(start, EndOrTotal(end, n), n)
                   THEN /\ raised' = "ValueError"
                        /\ pc' = "raised"
                   ELSE /\ raised' = raised
                        /\ pc' = "extract_load"
    /\ UNCHANGED <<op, input_file, input_files, chunk_size, start, end,
                   slide_range, dir_created, written, start_idx, end_idx,
                   new_prs, slides_to_remove, created_files, merged_prs,
                   file_i, slide_i, result, message, exit_code>>

\* a bug: the 1-indexed start is used as a 0-based index
ExtractKeep_NoShift(s, e) == SlidesToKeep(s, e)

\* set(range(start - 1, end))
ExtractKeep(s, e) == SlidesToKeep(s - 1, e)

\* the fresh copy, slides_to_keep and slides_to_remove
ExtractLoadCopy ==
    /\ pc = "extract_load"
    /\ LET p == LoadPrs(input_file)
       IN  /\ new_prs' = p
           /\ slides_to_remove' =
                  RemovalOrder(SlidesToRemove(Len(p.sldIdLst),
                      ExtractKeep(start, EndOrTotal(end, total_slides))))
    /\ pc' = "extract_remove"
    /\ UNCHANGED <<op, input_file, input_files, chunk_size, start, end,
                   slide_range, dir_created, written, total_slides,
                   start_idx, end_idx, created_files, merged_prs, file_i,
                   slide_i, result, raised, message, exit_code>>

\* one turn of `for slide_idx in reversed(slides_to_remove)`
ExtractRemoveSlide ==
    /\ pc = "extract_remove"
    /\ slides_to_remove # <<>>
    /\ new_prs' = DropSlide(new_prs, Head(slides_to_remove))
    /\ slides_to_remove' = Tail(slides_to_remove)
    /\ UNCHANGED <<op, pc, input_file, input_files, chunk_size, start, end,
                   slide_range, dir_created, written, total_slides,
                   start_idx, end_idx, created_files, merged_prs, file_i,
                   slide_i, result, raised, message, exit_code>>

\* output_file.parent.mkdir(...); new_prs.save(output_file)
ExtractSave ==
    /\ pc = "extract_remove"
    /\ slides_to_remove = <<>>
    /\ dir_created' = TRUE
    /\ written' = Append(written, [name |-> OutputName, deck |-> new_prs])
    /\ pc' = "done"
    /\ UNCHANGED <<op, input_file, input_files, chunk_size, start, end,
                   slide_range, total_slides, start_idx, end_idx, new_prs,
                   slides_to_remove, created_files, merged_prs, file_i,
                   slide_i, result, raised, message, exit_code>>

\* ------------------------------------------------ the CLI extract command
RangeChars == {"0", "1", "2", "9", "-", "x"}

DigitChars == {"0", "1", "2", "3", "4", "5", "6", "7", "8", "9"}

DigitVal(c) ==
    CASE c = "0" -> 0 [] c = "1" -> 1 [] c = "2" -> 2 [] c = "3" -> 3
      [] c = "4" -> 4 [] c = "5" -> 5 [] c = "6" -> 6 [] c = "7" -> 7
      [] c = "8" -> 8 [] c = "9" -> 9 [] OTHER -> 0

\* '-' in s
HasDash(s) == \E i \in 1..Len(s) : s[i] = "-"

FirstDash(s) == CHOOSE i \in 1..Len(s) :
                    s[i] = "-" /\ \A j \in 1..(i - 1) : s[j] # "-"

\* s.split('-', 1), for s holding a '-'
SplitOnce(s) ==
    LET d == FirstDash(s)
    IN  <<SubSeq(s, 1, d - 1), SubSeq(s, d + 1, Len(s))>>

\* the digits of an int() literal: an optional sign, then the rest
Unsigned(p) == IF p # <<>> /\ Head(p) = "-" THEN Tail(p) ELSE p

\* int(p) does not raise ValueError
IsIntLiteral(p) ==
    /\ Unsigned(p) # <<>>
    /\ \A i \in 1..Len(Unsigned(p)) : Unsigned(p)[i] \in DigitChars

RECURSIVE NatOf(_)
NatOf(ds) ==
    IF ds = <<>> THEN 0
    ELSE 10 * NatOf(SubSeq(ds, 1, Len(ds) - 1)) + DigitVal(ds[Len(ds)])

\* int(p), for p an int() literal
IntOf(p) == IF p # <<>> /\ Head(p) = "-" THEN 0 - NatOf(Tail(p)) ELSE NatOf(p)

\* the argument parser has checked that the path exists
CliDecks ==
    {CorruptDeck} \cup
    {d \in WellFormedDecks :
        \A i \in 1..Len(d.sldIdLst) : d.sldIdLst[i] = i}

InitCli ==
    /\ op = "cli_extract"
    /\ pc = "cli_entry"
    /\ input_file \in CliDecks
    /\ slide_range \in SeqsUpTo(RangeChars, MaxRangeLen)
    /\ start = 0
    /\ end = <<>>
    /\ chunk_size = <<>>
    /\ input_files = <<>>
    /\ Locals

\* the range is parsed, or a message is printed and the command exits
CliParseRange ==
    /\ pc = "cli_entry"
    /\ IF ~HasDash(slide_range)
       THEN /\ message' = "range_must_be_in_format"
            /\ exit_code' = 1
            /\ pc' = "exited"
            /\ UNCHANGED <<start, end>>
       ELSE LET parts == SplitOnce(slide_range)
            IN  IF ~IsIntLiteral(parts[1])
                   \/ (parts[2] # <<>> /\ ~IsIntLiteral(parts[2]))
                THEN /\ message' = "invalid_range_format"
                     /\ exit_code' = 1
                     /\ pc' = "exited"
                     /\ UNCHANGED <<start, end>>
                ELSE /\ start' = IntOf(parts[1])
                     /\ end' = IF parts[2] = <<>> THEN <<>>
                               ELSE <<IntOf(parts[2])>>
                     /\ message' = "extracting"
                     /\ exit_code' = exit_code
                     /\ pc' = "extract_entry"
    /\ UNCHANGED <<op, input_file, input_files, chunk_size, slide_range,
                   dir_created, written, total_slides, start_idx, end_idx,
                   new_prs, slides_to_remove, created_files, merged_prs,
                   file_i, slide_i, result, raised>>

\* except ValueError / except Exception around the whole command body
CliHandler(exc) ==
    IF exc = "ValueError" THEN "invalid_range_format" ELSE "error"

CliReportError ==
    /\ op = "cli_extract"
    /\ pc = "raised"
    /\ message' = CliHandler(raised)
    /\ exit_code' = 1
    /\ pc' = "exited"
    /\ UNCHANGED <<op, input_file, input_files, chunk_size, start, end,
                   slide_range, dir_created, written, total_slides,
                   start_idx, end_idx, new_prs, slides_to_remove,
                   created_files, merged_prs, file_i, slide_i, result,
                   raised>>

CliReportSuccess ==
    /\ op = "cli_extract"
    /\ pc = "done"
    /\ message' = "success"
    /\ exit_code' = 0
    /\ pc' = "exited"
    /\ UNCHANGED <<op, input_file, input_files, chunk_size, start, end,
                   slide_range, dir_created, written, total_slides,
                   start_idx, end_idx, new_prs, slides_to_remove,
                   created_files, merged_prs, file_i, slide_i, result,
                   raised>>

\* ---------------------------------------------------- merge_presentations
\* the shapes of slide i of the k-th input deck, n of them
SourceShapes(k, i, n) == [j \in 1..n |-> [deck |-> k, slide |-> i, shape |-> j]]

\* origin records which source slide a slide was made for
SourceSlide(k, i, n) == [origin |-> <<k, i>>, shapes |-> SourceShapes(k, i, n)]

\* a layout is the number of placeholders add_slide clones from it; a deck
\* has at least one layout
LayoutLists ==
    {[i \in 1..n |-> IF i = 1 THEN p0 ELSE p] :
        n \in 1..MaxLayouts, p0 \in 0..MaxPlaceholders,
        p \in 0..MaxPlaceholders}

\* the k-th input deck: ns < 0 is a missing path, else ns slides
MergeDeck(k, ns, n, lay) ==
    [exists |-> ns >= 0,
     slides |-> [i \in 1..(IF ns >= 0 THEN ns ELSE 0) |-> SourceSlide(k, i, n)],
     layouts |-> lay]

InitMerge ==
    /\ op = "merge"
    /\ pc = "merge_entry"
    /\ \E counts \in SeqsUpTo(-1..MaxMergeSlides, MaxFiles),
          n \in 0..MaxShapes, lay \in LayoutLists :
          input_files = [k \in 1..Len(counts) |-> MergeDeck(k, counts[k], n, lay)]
    /\ input_file = NoDeck
    /\ chunk_size = <<>>
    /\ start = 0
    /\ end = <<>>
    /\ slide_range = <<>>
    /\ Locals

\* the empty-list check and the existence check of every input
MergeCheckInputs ==
    /\ pc = "merge_entry"
    /\ IF input_files = <<>>
       THEN /\ raised' = "ValueError"
            /\ pc' = "raised"
       ELSE IF \E k \in 1..Len(input_files) : ~input_files[k].exists
       THEN /\ raised' = "FileNotFoundError"
            /\ pc' = "raised"
       ELSE /\ raised' = raised
            /\ pc' = "merge_load_base"
    /\ UNCHANGED <<op, input_file, input_files, chunk_size, start, end,
                   slide_range, dir_created, written, total_slides,
                   start_idx, end_idx, new_prs, slides_to_remove,
                   created_files, merged_prs, file_i, slide_i, result,
                   message, exit_code>>

\* a bug: every input file is appended, the base deck included
SourcesAfterBase_All(files) == files

\* input_files[1:]
SourcesAfterBase(files) == Tail(files)

\* merged_prs = Presentation(input_files[0])
MergeLoadBase ==
    /\ pc = "merge_load_base"
    /\ merged_prs' = [slides |-> input_files[1].slides,
                      layouts |-> input_files[1].layouts]
    /\ file_i' = 1
    /\ slide_i' = 1
    /\ pc' = "merge_sources"
    /\ UNCHANGED <<op, input_file, input_files, chunk_size, start, end,
                   slide_range, dir_created, written, total_slides,
                   start_idx, end_idx, new_prs, slides_to_remove,
                   created_files, result, raised, message, exit_code>>

\* try slide_layouts[6] except IndexError slide_layouts[0]
SelectLayout(layouts) ==
    IF Len(layouts) > BlankLayoutIdx THEN layouts[BlankLayoutIdx + 1]
    ELSE layouts[1]

\* the placeholders add_slide clones from the layout into the new slide
ClonedPlaceholders(layout) ==
    [j \in 1..layout |-> [deck |-> 0, slide |-> 0, shape |-> j]]

\* add_slide(layout), then one deep copy per source shape appended in order
TransplantSlide(layout, slide) ==
    [origin |-> slide.origin,
     shapes |-> ClonedPlaceholders(layout) \o slide.shapes]

\* one turn of `for slide in prs.slides`; the best-effort copy of the
\* background fill sets a slide property outside the shape tree and its
\* failure is swallowed, so it changes nothing that is kept here
MergeAddSlide ==
    /\ pc = "merge_sources"
    /\ file_i <= Len(SourcesAfterBase(input_files))
    /\ slide_i <= Len(SourcesAfterBase(input_files)[file_i].slides)
    /\ merged_prs' =
           [merged_prs EXCEPT !.slides =
               Append(@, TransplantSlide(SelectLayout(merged_prs.layouts),
                   SourcesAfterBase(input_files)[file_i].slides[slide_i]))]
    /\ slide_i' = slide_i + 1
    /\ UNCHANGED <<op, pc, raised, input_file, input_files, chunk_size,
                   start, end, slide_range, dir_created, written, total_slides,
                   start_idx, end_idx, new_prs, slides_to_remove,
                   created_files, file_i, result, message, exit_code>>

\* the slides of one source are used up: on to the next input file
MergeNextSource ==
    /\ pc = "merge_sources"
    /\ file_i <= Len(SourcesAfterBase(input_files))
    /\ slide_i > Len(SourcesAfterBase(input_files)[file_i].slides)
    /\ file_i' = file_i + 1
    /\ slide_i' = 1
    /\ UNCHANGED <<op, pc, input_file, input_files, chunk_size, start, end,
                   slide_range, dir_created, written, total_slides,
                   start_idx, end_idx, new_prs, slides_to_remove,
                   created_files, merged_prs, result, raised, message,
                   exit_code>>

\* output_file.parent.mkdir(...); merged_prs.save(output_file)
MergeSave ==
    /\ pc = "merge_sources"
    /\ file_i > Len(SourcesAfterBase(input_files))
    /\ dir_created' = TRUE
    /\ written' = Append(written, [name |-> OutputName, deck |-> merged_prs])
    /\ pc' = "done"
    /\ UNCHANGED <<op, input_file, input_files, chunk_size, start, end,
                   slide_range, total_slides, start_idx, end_idx, new_prs,
                   slides_to_remove, created_files, merged_prs, file_i,
                   slide_i, result, raised, message, exit_code>>

\* ---------------------------------------------------- verify_presentation
\* decks as verify can meet them: a slide-list entry may lack its
\* relationship (rels), and reading a slide's shapes may raise (bad)
VerifyDecks ==
    {NoDeck, CorruptDeck} \cup
    {[exists |-> TRUE, opens |-> TRUE, sldIdLst |-> RangeSeq(1, n + 1),
      rels |-> r, bad |-> b, layouts |-> 1, masters |-> 1] :
        n \in 0..MaxSlides, r \in SUBSET (1..MaxSlides),
        b \in SUBSET (1..MaxSlides)}

InitVerify ==
    /\ op = "verify"
    /\ pc = "verify_entry"
    /\ input_file \in {d \in VerifyDecks :
                          d.rels \cup d.bad \subseteq Range(d.sldIdLst)}
    /\ input_files = <<>>
    /\ chunk_size = <<>>
    /\ start = 0
    /\ end = <<>>
    /\ slide_range = <<>>
    /\ Locals

VerifyCheckInput ==
    /\ pc = "verify_entry"
    /\ IF ~input_file.exists
       THEN /\ result' = [result EXCEPT !.error = "File not found"]
            /\ pc' = "returned"
       ELSE /\ result' = result
            /\ pc' = "verify_open"
    /\ UNCHANGED <<op, input_file, input_files, chunk_size, start, end,
                   slide_range, dir_created, written, total_slides,
                   start_idx, end_idx, new_prs, slides_to_remove,
                   created_files, merged_prs, file_i, slide_i, raised,
                   message, exit_code>>

\* Presentation(path), then the three counts
VerifyOpen ==
    /\ pc = "verify_open"
    /\ IF ~input_file.opens
       THEN /\ result' = [result EXCEPT !.error = "exception"]
            /\ pc' = "returned"
            /\ slide_i' = slide_i
       ELSE /\ result' = [result EXCEPT
                              !.slides = Len(input_file.sldIdLst),
                              !.layouts = input_file.layouts,
                              !.masters = input_file.masters]
            /\ slide_i' = 1
            /\ pc' = "verify_slides"
    /\ UNCHANGED <<op, input_file, input_files, chunk_size, start, end,
                   slide_range, dir_created, written, total_slides,
                   start_idx, end_idx, new_prs, slides_to_remove,
                   created_files, merged_prs, file_i, raised, message,
                   exit_code>>

\* the inner try: shape count and title, or the exception's text
SlideInfo(deck, idx) ==
    IF deck.sldIdLst[idx] \in deck.bad
    THEN [number |-> idx, shapes |-> 0, has_title |-> FALSE,
          error |-> "exception"]
    ELSE [number |-> idx, shapes |-> 1, has_title |-> TRUE, error |-> "None"]

\* the slide list's iterator resolves the entry's relationship
SlideResolves(deck, idx) == deck.sldIdLst[idx] \in deck.rels

\* one turn of `for idx, slide in enumerate(prs.slides, start=1)`; the
\* iterator runs outside the inner try, so its exception ends the loop
VerifySlide ==
    /\ pc = "verify_slides"
    /\ slide_i <= Len(input_file.sldIdLst)
    /\ IF ~SlideResolves(input_file, slide_i)
       THEN /\ result' = [result EXCEPT !.error = "exception"]
            /\ pc' = "returned"
            /\ slide_i' = slide_i
       ELSE /\ result' = [result EXCEPT !.slide_details =
                              Append(@, SlideInfo(input_file, slide_i))]
            /\ slide_i' = slide_i + 1
            /\ pc' = pc
    /\ UNCHANGED <<op, input_file, input_files, chunk_size, start, end,
                   slide_range, dir_created, written, total_slides,
                   start_idx, end_idx, new_prs, slides_to_remove,
                   created_files, merged_prs, file_i, raised, message,
                   exit_code>>

\* result["valid"] = True; return result
VerifyFinish ==
    /\ pc = "verify_slides"
    /\ slide_i > Len(input_file.sldIdLst)
    /\ result' = [result EXCEPT !.valid = TRUE]
    /\ pc' = "returned"
    /\ UNCHANGED <<op, input_file, input_files, chunk_size, start, end,
                   slide_range, dir_created, written, total_slides,
                   start_idx, end_idx, new_prs, slides_to_remove,
                   created_files, merged_prs, file_i, slide_i, raised,
                   message, exit_code>>

\* ------------------------------------------------------ the specification
Init == InitSplit \/ InitExtract \/ InitCli \/ InitMerge \/ InitVerify

Next ==
    \/ SplitCheckInput
    \/ SplitMkdir
    \/ SplitValidate
    \/ SplitChunkBegin
    \/ SplitRemoveSlide
    \/ SplitSaveChunk
    \/ SplitReturn
    \/ ExtractCheckInput
    \/ ExtractValidate
    \/ ExtractLoadCopy
    \/ ExtractRemoveSlide
    \/ ExtractSave
    \/ CliParseRange
    \/ CliReportError
    \/ CliReportSuccess
    \/ MergeCheckInputs
    \/ MergeLoadBase
    \/ MergeAddSlide
    \/ MergeNextSource
    \/ MergeSave
    \/ VerifyCheckInput
    \/ VerifyOpen
    \/ VerifySlide
    \/ VerifyFinish

Spec == Init /\ [][Next]_vars

\* ================================================================ claims
SourceSlides == input_file.sldIdLst

CeilDiv(t, c) == (t + c - 1) \div c

RECURSIVE ConcatDecks(_)
ConcatDecks(fs) ==
    IF fs = <<>> THEN <<>>
    ELSE Head(fs).deck.sldIdLst \o ConcatDecks(Tail(fs))

\* the chunk size the caller asked for, None counted as 1
AskedChunk == IF chunk_size = <<>> THEN 1 ELSE chunk_size[1]

\* the last slide the caller asked for, None counted as the last slide
AskedEnd == IF end = <<>> THEN Len(SourceSlides) ELSE end[1]

\* C1: for T >= 1 slides and chunk size C >= 1 (None is 1) split returns
\* ceil(T/C) files in chunk order, the k-th holding exactly the source
\* slides at positions [k*C, min((k+1)*C, T)) in source order, and the
\* files' slides concatenated are the source's slides; such a call never
\* fails validation.
C1_SplitChunks ==
    (op = "split" /\ input_file.opens) =>
        LET T == Len(SourceSlides)
            C == AskedChunk
        IN  /\ (pc = "raised" => (T = 0 \/ C < 1))
            /\ (pc = "done" =>
                   /\ T >= 1 /\ C >= 1
                   /\ Len(written) = CeilDiv(T, C)
                   /\ Len(created_files) = Len(written)
                   /\ \A k \in 0..(Len(written) - 1) :
                         /\ created_files[k + 1] = written[k + 1].name
                         /\ written[k + 1].deck.sldIdLst =
                                SubSeq(SourceSlides, k * C + 1,
                                       Min((k + 1) * C, T))
                         /\ written[k + 1].deck.rels =
                                Range(written[k + 1].deck.sldIdLst)
                   /\ ConcatDecks(written) = SourceSlides)

\* a split into at least two files whose last file is shorter than the rest
C1_Witness ==
    /\ op = "split"
    /\ pc = "done"
    /\ Len(written) >= 2
    /\ Len(written[Len(written)].deck.sldIdLst) < AskedChunk

\* C2: for 1 <= start <= end <= T (end None is T) extract_slides succeeds and
\* writes one deck holding exactly the source slides start..end (1-indexed,
\* inclusive) in source order.
C2_ExtractRange ==
    (op \in {"extract", "cli_extract"} /\ input_file.opens
       /\ pc \in {"raised", "done"}) =>
        LET T == Len(SourceSlides)
            ok == 1 <= start /\ start <= AskedEnd /\ AskedEnd <= T
        IN  /\ (ok => pc = "done")
            /\ (pc = "done" =>
                   /\ ok
                   /\ Len(written) = 1
                   /\ written[1].deck.sldIdLst =
                          SubSeq(SourceSlides, start, AskedEnd)
                   /\ written[1].deck.rels = Range(written[1].deck.sldIdLst))

\* an extraction that drops slides on both sides of the range
C2_Witness ==
    /\ op = "extract"
    /\ pc = "done"
    /\ start > 1
    /\ end # <<>>
    /\ start < end[1]
    /\ end[1] < Len(SourceSlides)

\* an extraction of a single slide with end left as None
C2_WitnessToEnd ==
    /\ op = "extract"
    /\ pc = "done"
    /\ end = <<>>
    /\ start = Len(SourceSlides)
    /\ Len(written[1].deck.sldIdLst) = 1

Origins(slides) == [i \in 1..Len(slides) |-> slides[i].origin]

RECURSIVE AllOrigins(_)
AllOrigins(decks) ==
    IF decks = <<>> THEN <<>>
    ELSE Origins(Head(decks).slides) \o AllOrigins(Tail(decks))

RECURSIVE SlideTotal(_)
SlideTotal(decks) ==
    IF decks = <<>> THEN 0
    ELSE Len(Head(decks).slides) + SlideTotal(Tail(decks))

AllExist(decks) == \A k \in 1..Len(decks) : decks[k].exists

\* C3: for a non-empty list of existing decks with n1..nk slides merge
\* succeeds and writes a deck of n1+...+nk slides: the first deck's slides
\* unchanged, then one slide per slide of each later deck, in list order
\* and in slide order within each deck.
C3_MergeOrder ==
    (op = "merge" /\ pc \in {"raised", "done"}) =>
        LET ok == input_files # <<>> /\ AllExist(input_files)
        IN  /\ (ok => pc = "done")
            /\ (pc = "done" =>
                   /\ ok
                   /\ Len(written) = 1
                   /\ Len(written[1].deck.slides) = SlideTotal(input_files)
                   /\ SubSeq(written[1].deck.slides, 1,
                             Len(input_files[1].slides)) =
                          input_files[1].slides
                   /\ Origins(written[1].deck.slides) =
                          AllOrigins(input_files))

\* a merge of three non-empty decks, the second with two slides
C3_Witness ==
    /\ op = "merge"
    /\ pc = "done"
    /\ Len(input_files) >= 3
    /\ \A k \in 1..Len(input_files) : Len(input_files[k].slides) >= 1
    /\ Len(input_files[2].slides) >= 2

\* C4: every slide merge appends holds exactly its source slide's shapes,
\* in order and with nothing added, whichever layout was selected.
C4_ShapesPreserved ==
    (op = "merge" /\ pc \in {"merge_sources", "done"}) =>
        \A i \in 1..Len(merged_prs.slides) :
            LET o == merged_prs.slides[i].origin
            IN  merged_prs.slides[i].shapes =
                    input_files[o[1]].slides[o[2]].shapes

\* C5: when an operation fails with a not-found or validation error, no
\* output file has been written and no output directory has been created.
C5_NoOutputOnError ==
    (pc = "raised" /\ raised \in {"FileNotFoundError", "ValueError"}) =>
        (written = <<>> /\ ~dir_created)

\* C6: a report with valid = false carries an error message and no partial
\* results: all three counts are 0 and slide_details is empty.
C6_InvalidReportEmpty ==
    (op = "verify" /\ pc = "returned" /\ ~result.valid) =>
        /\ result.error # "None"
        /\ result.slides = 0
        /\ result.layouts = 0
        /\ result.masters = 0
        /\ result.slide_details = <<>>

\* C7: whenever the deck opens with N slides, verify returns valid = true,
\* slides = N and N records numbered 1..N, record i with error None exactly
\* when inspecting slide i raised nothing.
C7_ValidWhenOpens ==
    (op = "verify" /\ pc = "returned" /\ input_file.opens) =>
        LET N == Len(SourceSlides)
        IN  /\ result.valid
            /\ result.slides = N
            /\ Len(result.slide_details) = N
            /\ \A i \in 1..N :
                  /\ result.slide_details[i].number = i
                  /\ (result.slide_details[i].error = "None")
                         <=> (SourceSlides[i] \notin input_file.bad)

\* the range string has no '-', or a part of it is not an integer
Malformed(s) ==
    \/ ~HasDash(s)
    \/ ~IsIntLiteral(SplitOnce(s)[1])
    \/ (SplitOnce(s)[2] # <<>> /\ ~IsIntLiteral(SplitOnce(s)[2]))

RangeFormatMessages == {"range_must_be_in_format", "invalid_range_format"}

\* C8: the CLI prints a range-format message, with exit code 1 and before
\* extract_slides is called, if and only if the range string is malformed.
C8_RangeMessageIffMalformed ==
    (op = "cli_extract" /\ pc = "exited") =>
        /\ (message \in RangeFormatMessages) <=> Malformed(slide_range)
        /\ Malformed(slide_range) =>
               (exit_code = 1 /\ raised = "none" /\ written = <<>>)

\* n written with exactly three digits
ThreeDigits(n) == <<(n \div 100) % 10, (n \div 10) % 10, n % 10>>

\* the 1-indexed place in the source of the slide with relationship id r
PlaceOf(r) == CHOOSE i \in 1..Len(SourceSlides) : SourceSlides[i] = r

\* C9: a chunk of one slide n is named slide_<n>, a chunk of several slides
\* s..e is named slides_<s>-<e>, numbers 1-indexed with three digits, and
\* the names of one split are pairwise distinct.
C9_NameByChunkLength ==
    (op = "split") =>
        /\ \A k \in 1..Len(written) :
              LET ids == written[k].deck.sldIdLst
                  s == PlaceOf(ids[1])
                  e == PlaceOf(ids[Len(ids)])
              IN  IF Len(ids) = 1
                  THEN written[k].name =
                           [kind |-> "slide", first |-> ThreeDigits(s),
                            last |-> <<>>]
                  ELSE written[k].name =
                           [kind |-> "slides", first |-> ThreeDigits(s),
                            last |-> ThreeDigits(e)]
        /\ \A j, k \in 1..Len(written) :
              j # k => written[j].name # written[k].name

\* the elements of xs whose 0-based index is in S, in order
RECURSIVE Restrict(_, _, _)
Restrict(xs, S, i) ==
    IF i >= Len(xs) THEN <<>>
    ELSE (IF i \in S THEN <<xs[i + 1]>> ELSE <<>>) \o Restrict(xs, S, i + 1)

\* the keep-set of the removal loop that is running
KeepSet ==
    IF op = "split" THEN {i \in 0..(Len(SourceSlides) - 1) :
                              start_idx <= i /\ i < end_idx}
    ELSE {i \in 0..(Len(SourceSlides) - 1) : start - 1 <= i /\ i < AskedEnd}

\* C10: in the removal loop each step removes the slide that was at that
\* index in the loaded list, after every step the slide relationships are
\* exactly the relationship ids of the slide list, and when the loop ends
\* the list holds exactly the kept slides in their original order.
C10_RemovalLoop ==
    (pc \in {"split_remove", "extract_remove"}) =>
        /\ new_prs.rels = Range(new_prs.sldIdLst)
        /\ Cardinality(new_prs.rels) = Len(new_prs.sldIdLst)
        /\ slides_to_remove # <<>> =>
               /\ Head(slides_to_remove) < Len(new_prs.sldIdLst)
               /\ new_prs.sldIdLst[Head(slides_to_remove) + 1] =
                      SourceSlides[Head(slides_to_remove) + 1]
        /\ new_prs.sldIdLst =
               Restrict(SourceSlides, KeepSet \cup Range(slides_to_remove), 0)
        /\ slides_to_remove = <<>> =>
               new_prs.sldIdLst = Restrict(SourceSlides, KeepSet, 0)

\* the loop has ended after removing slides before and after the kept ones
C10_Witness ==
    /\ pc = "extract_remove"
    /\ slides_to_remove = <<>>
    /\ start > 1
    /\ AskedEnd < Len(SourceSlides)
    /\ Len(new_prs.sldIdLst) = AskedEnd - start + 1

\* the loop is half way: one slide removed, another still to go
C10_WitnessMidLoop ==
    /\ pc = "split_remove"
    /\ slides_to_remove # <<>>
    /\ Len(new_prs.sldIdLst) < Len(SourceSlides)
====
